---- MODULE Spec2Model ----
(***************************************************************************)
(* dusk: the scan engine (scanner.py), the trend comparator and the scan   *)
(* store (db.py).                                                          *)
(*                                                                         *)
(* Strings are modelled as sequences of one-character strings, so that     *)
(* rstrip, basename and normpath are computed and not assumed.             *)
(* Floats are modelled as exact rationals in lowest terms.                 *)
(***************************************************************************)
EXTENDS Integers, Sequences, FiniteSets, TLC

VARIABLES
    \* ---- db.compare_scans ----
    current,        \* argument `current` of compare_scans
    previous,       \* argument `previous` of compare_scans
    cmp_pc,         \* "ready" before the call, "returned" / "raised" after it
    comparison,     \* the ScanComparison returned
    \* ---- scanner.scan: the calling thread ----
    main_pc,        \* position of scan() in its body
    snapshot,       \* the ScanResult returned
    top_n,          \* argument top_n
    file_count,     \* argument file_count
    \* ---- scanner.get_disk_info (worker) ----
    disk_pc,        \* position of get_disk_info, "done" / "raised" at its end
    disk_info,      \* the DiskInfo it returns
    \* ---- scanner.scan_directories (worker) and its du process ----
    dirs_pc,        \* position of scan_directories
    du_state,       \* "none", "running", "exited" or "killed"
    du_todo,        \* lines du has still to print
    du_pipe,        \* lines printed and not yet read from the pipe
    comm_buf,       \* lines communicate() has read (Popen._fileobj2output)
    dirs_stdout,    \* the local `stdout`
    directories,    \* the list scan_directories returns
    du_printed,     \* history: every line du has printed
    du_by_timeout,  \* history: the lines printed when the timeout expired
    dirs_timed_out, \* history: communicate() raised TimeoutExpired
    \* ---- scanner.find_large_files (worker) ----
    files_pc,       \* position of find_large_files
    fs_listing,     \* the paths a search tool prints when it runs
    tool_stdout,    \* result.stdout of the tier in progress, lines left
    files,          \* the local `files`
    large_files,    \* the list find_large_files returns
    files_exc,      \* the exception find_large_files ends with, "" if none
    files_none,     \* `files is None`
    mdfind_outcome, \* history: how the mdfind run ended, "" before it
    find_calls,     \* history: calls of _find_large_files_find
    stat_log,       \* history: the paths re-stat'ed and what getsize answered
    \* ---- the wall clock ----
    clock,          \* what datetime.now() answers at this moment
    started_at,     \* history: the clock when each probe began to run
    \* ---- db.py: the SQLite file ~/.dusk/dusk.db and the last call ----
    scans,          \* the rows of table scans
    entries,        \* the rows of table entries
    seq_scans,      \* sqlite_sequence of scans: the greatest id given so far
    seq_entries,    \* sqlite_sequence of entries
    db_call,        \* the last call of a db function and what it returned
    saved           \* history: the ScanResults that save_scan has stored

cmp_vars == <<current, previous, cmp_pc, comparison>>

main_vars == <<main_pc, snapshot, top_n, file_count>>

disk_vars == <<disk_pc, disk_info>>

dirs_vars == <<dirs_pc, du_state, du_todo, du_pipe, comm_buf, dirs_stdout,
               directories, du_printed, du_by_timeout, dirs_timed_out>>

files_vars == <<files_pc, fs_listing, tool_stdout, files, files_none,
                large_files, files_exc, mdfind_outcome, find_calls, stat_log>>

time_vars == <<clock, started_at>>

scan_vars == <<main_vars, disk_vars, dirs_vars, files_vars, time_vars>>

db_vars == <<scans, entries, seq_scans, seq_entries, db_call, saved>>

------------------------------------------------------------------------------
(* Bounds of the model *)

\* longest generated directory list of a snapshot
MaxDirs == 2

\* most lines du prints in one run
MaxLines == 2

\* most paths a search tool prints in one run
MaxFound == 2

------------------------------------------------------------------------------
(* Strings *)

SeqMax(S) == CHOOSE m \in S : \A x \in S : x <= m

SeqMin(S) == CHOOSE m \in S : \A x \in S : m <= x

Abs(n) == IF n < 0 THEN -n ELSE n

RECURSIVE RStripSlash(_)
\* str.rstrip("/")
RStripSlash(s) ==
    IF s # <<>> /\ s[Len(s)] = "/"
    THEN RStripSlash(SubSeq(s, 1, Len(s) - 1))
    ELSE s

\* os.path.basename: everything after the last "/"
Basename(s) ==
    LET slashes == {i \in 1..Len(s) : s[i] = "/"}
        last    == IF slashes = {} THEN 0 ELSE SeqMax(slashes)
    IN  SubSeq(s, last + 1, Len(s))

\* the dictionary key of a DirEntry in compare_scans
BaseKey(path) == Basename(RStripSlash(path))

------------------------------------------------------------------------------
(* Floats as rationals *)

RECURSIVE Gcd(_, _)
Gcd(a, b) == IF b = 0 THEN a ELSE Gcd(b, a % b)

\* the rational n/d (d # 0) in lowest terms with a positive denominator
Rat(n, d) ==
    LET g == Gcd(Abs(n), Abs(d))
        s == IF d < 0 THEN -1 ELSE 1
    IN  [num |-> (s * n) \div g, den |-> Abs(d) \div g]

FloatZero == [num |-> 0, den |-> 1]

\* what a division by zero leaves in place of a value (ZeroDivisionError)
DivError == [num |-> 0, den |-> 0]

\* Python's `a / b * 100` on ints
DivTimes100(a, b) == IF b = 0 THEN DivError ELSE Rat(a * 100, b)

------------------------------------------------------------------------------
(* db.compare_scans *)

DirEntry(p, s) == [path |-> p, size_bytes |-> s]

\* the mapping in which the first entry of a base name stays
DirMapFirstWins(dirs) ==
    LET keys == {BaseKey(dirs[i].path) : i \in DOMAIN dirs}
    IN  [k \in keys |->
            dirs[SeqMin({i \in DOMAIN dirs : BaseKey(dirs[i].path) = k})]]

\* {basename(d.path.rstrip("/")): d for d in dirs}: a later entry overwrites
DirMap(dirs) ==
    LET keys == {BaseKey(dirs[i].path) : i \in DOMAIN dirs}
    IN  [k \in keys |->
            dirs[SeqMax({i \in DOMAIN dirs : BaseKey(dirs[i].path) = k})]]

\* the division without its guard
PctUnguarded(delta, prev_size) == DivTimes100(delta, prev_size)

\* pct = (delta / prev.size_bytes * 100) if prev.size_bytes else 0.0
Pct(delta, prev_size) ==
    IF prev_size # 0 THEN DivTimes100(delta, prev_size) ELSE FloatZero

\* delta taken the wrong way round
TrendEntrySwapped(cur, prev) ==
    LET delta == prev.size_bytes - cur.size_bytes
    IN  [path           |-> cur.path,
         current_bytes  |-> cur.size_bytes,
         previous_bytes |-> prev.size_bytes,
         delta_bytes    |-> delta,
         delta_percent  |-> Pct(delta, prev.size_bytes)]

\* delta without the subtraction
TrendEntryNoSubtract(cur, prev) ==
    LET delta == cur.size_bytes
    IN  [path           |-> cur.path,
         current_bytes  |-> cur.size_bytes,
         previous_bytes |-> prev.size_bytes,
         delta_bytes    |-> delta,
         delta_percent  |-> Pct(delta, prev.size_bytes)]

\* TrendEntry(path=cur.path, current_bytes=..., ..., delta_percent=pct)
TrendEntry(cur, prev) ==
    LET delta == cur.size_bytes - prev.size_bytes
    IN  [path           |-> cur.path,
         current_bytes  |-> cur.size_bytes,
         previous_bytes |-> prev.size_bytes,
         delta_bytes    |-> delta,
         delta_percent  |-> Pct(delta, prev.size_bytes)]

RECURSIVE InsertDesc(_, _)
\* place t after every entry whose |delta| is >= its own (a stable sort)
InsertDesc(sorted, t) ==
    IF sorted = <<>> THEN <<t>>
    ELSE IF Abs(Head(sorted).delta_bytes) >= Abs(t.delta_bytes)
         THEN <<Head(sorted)>> \o InsertDesc(Tail(sorted), t)
         ELSE <<t>> \o sorted

\* the sort left out
SortTrendsUnsorted(ts) == ts

RECURSIVE SortTrends(_)
\* trends.sort(key=lambda t: abs(t.delta_bytes), reverse=True)
SortTrends(ts) ==
    IF ts = <<>> THEN <<>>
    ELSE InsertDesc(SortTrends(SubSeq(ts, 1, Len(ts) - 1)), ts[Len(ts)])

\* a key found on one side only always recorded as new
VisitKeyAllNew(acc, key, current_dirs, previous_dirs) ==
    LET hasCur  == key \in DOMAIN current_dirs
        hasPrev == key \in DOMAIN previous_dirs
    IN  IF hasCur /\ hasPrev
        THEN [acc EXCEPT !.trends =
                 Append(@, TrendEntry(current_dirs[key], previous_dirs[key]))]
        ELSE IF hasCur
        THEN [acc EXCEPT !.new_dirs = Append(@, current_dirs[key])]
        ELSE [acc EXCEPT !.new_dirs = Append(@, previous_dirs[key])]

\* one pass of `for key in all_keys`, acc the three lists built so far
VisitKey(acc, key, current_dirs, previous_dirs) ==
    LET hasCur  == key \in DOMAIN current_dirs
        hasPrev == key \in DOMAIN previous_dirs
    IN  IF acc.raised THEN acc
        ELSE IF hasCur /\ hasPrev
        THEN LET t == TrendEntry(current_dirs[key], previous_dirs[key])
             IN  IF t.delta_percent = DivError
                 THEN [acc EXCEPT !.raised = TRUE]
                 ELSE [acc EXCEPT !.trends = Append(@, t)]
        ELSE IF hasCur
        THEN [acc EXCEPT !.new_dirs = Append(@, current_dirs[key])]
        ELSE IF hasPrev
        THEN [acc EXCEPT !.removed_dirs = Append(@, previous_dirs[key])]
        ELSE acc

RECURSIVE VisitKeys(_, _, _, _)
VisitKeys(acc, order, current_dirs, previous_dirs) ==
    IF order = <<>> THEN acc
    ELSE VisitKeys(VisitKey(acc, Head(order), current_dirs, previous_dirs),
                   Tail(order), current_dirs, previous_dirs)

\* the aggregate taken from the matched entries
OverallDeltaFromTrends(cur, prev, trends) ==
    LET RECURSIVE SumDelta(_)
        SumDelta(ts) == IF ts = <<>> THEN 0
                        ELSE Head(ts).delta_bytes + SumDelta(Tail(ts))
    IN  SumDelta(trends)

\* overall_delta = current.total_scanned_bytes - previous.total_scanned_bytes
OverallDelta(cur, prev, trends) ==
    cur.total_scanned_bytes - prev.total_scanned_bytes

EmptyLists == [raised |-> FALSE, trends |-> <<>>, new_dirs |-> <<>>,
               removed_dirs |-> <<>>]

\* the keys of the current snapshot only
AllKeysOfCurrent(cur, prev) == DOMAIN DirMap(cur.directories)

\* all_keys = set(current_dirs.keys()) | set(previous_dirs.keys())
AllKeys(cur, prev) ==
    DOMAIN DirMap(cur.directories) \cup DOMAIN DirMap(prev.directories)

\* the orders in which a Python set of these keys may be iterated
KeyOrders(keys) ==
    {o \in [1..Cardinality(keys) -> keys] :
        \A i, j \in DOMAIN o : i # j => o[i] # o[j]}

\* compare_scans(current, previous), the set being iterated in `order`
compare_scans(cur, prev, order) ==
    LET current_dirs  == DirMap(cur.directories)
        previous_dirs == DirMap(prev.directories)
        lists  == VisitKeys(EmptyLists, order, current_dirs, previous_dirs)
        trends == SortTrends(lists.trends)
    IN  [raised        |-> lists.raised,
         trends        |-> trends,
         overall_delta |-> OverallDelta(cur, prev, trends),
         new_dirs      |-> lists.new_dirs,
         removed_dirs  |-> lists.removed_dirs]

------------------------------------------------------------------------------
(* Inputs of compare_scans *)

\* "/r/A", "/r/B", "/r/C", "/r/D", and "/s/A/": another path named A
PathA  == <<"/", "r", "/", "A">>
PathB  == <<"/", "r", "/", "B">>
PathC  == <<"/", "r", "/", "C">>
PathD  == <<"/", "r", "/", "D">>
PathA2 == <<"/", "s", "/", "A", "/">>

GenPaths == {PathA, PathB, PathA2}
GenSizes == {0, 100, 200}

RECURSIVE SumSizes(_)
\* sum(d.size_bytes for d in directories)
SumSizes(dirs) ==
    IF dirs = <<>> THEN 0 ELSE Head(dirs).size_bytes + SumSizes(Tail(dirs))

\* directory lists as scan_directories and _row_to_scan build them: distinct
\* paths, ordered by non-increasing size
DirLists(n) ==
    {ds \in [1..n -> {DirEntry(p, s) : p \in GenPaths, s \in GenSizes}] :
        /\ \A i, j \in 1..n : i # j => ds[i].path # ds[j].path
        /\ \A i \in 1..n : i < n => ds[i].size_bytes >= ds[i + 1].size_bytes}

\* total_scanned_bytes is the sum scan() computes, or the dataclass default 0
SnapshotsOf(dirs) ==
    {[directories |-> dirs, total_scanned_bytes |-> t] :
        t \in {SumSizes(dirs), 0}}

ScanOf(dirs) == [directories |-> dirs, total_scanned_bytes |-> SumSizes(dirs)]

\* the snapshots of the documented scenarios
ScenarioCurrent  == ScanOf(<<DirEntry(PathB, 200), DirEntry(PathA, 100)>>)
ScenarioPrevious == ScanOf(<<DirEntry(PathB, 200), DirEntry(PathA, 80),
                             DirEntry(PathC, 50)>>)
ScenarioOnlyD    == ScanOf(<<DirEntry(PathD, 500)>>)

Snapshots ==
    UNION {SnapshotsOf(ds) : ds \in UNION {DirLists(n) : n \in 0..MaxDirs}}
    \cup {ScenarioCurrent, ScenarioPrevious, ScenarioOnlyD}

------------------------------------------------------------------------------
(* scanner.py: parsing, sorting and truncating *)

\* the root scanned, "/r"
Root == <<"/", "r">>

IsDigit(c) == c \in {"0", "1", "2", "3", "4", "5", "6", "7", "8", "9"}

DigitVal(c) ==
    CASE c = "0" -> 0 [] c = "1" -> 1 [] c = "2" -> 2 [] c = "3" -> 3
      [] c = "4" -> 4 [] c = "5" -> 5 [] c = "6" -> 6 [] c = "7" -> 7
      [] c = "8" -> 8 [] c = "9" -> 9

\* int(s) succeeds (no ValueError): the strings of the model hold no sign,
\* blank or underscore
IsInt(s) == s # <<>> /\ \A i \in DOMAIN s : IsDigit(s[i])

RECURSIVE IntOf(_)
\* int(s)
IntOf(s) ==
    IF s = <<>> THEN 0
    ELSE 10 * IntOf(SubSeq(s, 1, Len(s) - 1)) + DigitVal(s[Len(s)])

\* line.split("\t", 1)
SplitTab(line) ==
    LET tabs == {i \in DOMAIN line : line[i] = "\t"}
    IN  IF tabs = {} THEN <<line>>
        ELSE <<SubSeq(line, 1, SeqMin(tabs) - 1),
               SubSeq(line, SeqMin(tabs) + 1, Len(line))>>

\* os.path.normpath, for paths without ".", ".." and doubled separators
NormPath(p) ==
    IF p = <<>> THEN <<".">>
    ELSE IF RStripSlash(p) = <<>> THEN <<"/">>
    ELSE RStripSlash(p)

\* the body of `for line in ...`: the entries (none or one) a line adds
ParseLine(line, root) ==
    LET parts == SplitTab(line)
    IN  IF Len(parts) # 2 THEN <<>>
        ELSE IF ~IsInt(parts[1]) THEN <<>>
        ELSE IF NormPath(parts[2]) = NormPath(root) THEN <<>>
        ELSE <<DirEntry(parts[2], IntOf(parts[1]) * 1024)>>

RECURSIVE ParseLines(_, _)
ParseLines(lines, root) ==
    IF lines = <<>> THEN <<>>
    ELSE ParseLine(Head(lines), root) \o ParseLines(Tail(lines), root)

RECURSIVE StripLines(_)
\* str.strip() on the output, seen on its lines: blank lines at either end go
StripLines(lines) ==
    IF lines = <<>> THEN <<>>
    ELSE IF Head(lines) = <<>> THEN StripLines(Tail(lines))
    ELSE IF lines[Len(lines)] = <<>>
         THEN StripLines(SubSeq(lines, 1, Len(lines) - 1))
    ELSE lines

RECURSIVE InsertBySize(_, _)
InsertBySize(sorted, e) ==
    IF sorted = <<>> THEN <<e>>
    ELSE IF Head(sorted).size_bytes >= e.size_bytes
         THEN <<Head(sorted)>> \o InsertBySize(Tail(sorted), e)
         ELSE <<e>> \o sorted

RECURSIVE SortBySize(_)
\* list.sort(key=lambda e: e.size_bytes, reverse=True)
SortBySize(es) ==
    IF es = <<>> THEN <<>>
    ELSE InsertBySize(SortBySize(SubSeq(es, 1, Len(es) - 1)), es[Len(es)])

\* no truncation at all
SliceAll(seq, n) == seq

\* seq[:n]
Slice(seq, n) ==
    IF n >= 0
    THEN SubSeq(seq, 1, IF n < Len(seq) THEN n ELSE Len(seq))
    ELSE SubSeq(seq, 1, IF Len(seq) + n > 0 THEN Len(seq) + n ELSE 0)

\* the first n parsed entries, sorted afterwards
DirsOfOutputTruncFirst(stdout, root, n) ==
    SortBySize(Slice(ParseLines(StripLines(stdout), root), n))

\* lines 79-95 of scan_directories: parse, sort, truncate
DirsOfOutput(stdout, root, n) ==
    Slice(SortBySize(ParseLines(StripLines(stdout), root)), n)

------------------------------------------------------------------------------
(* The environment of a scan *)

\* a byte that is not valid in the locale's encoding, as a file name may hold
BadByte == "\\xff"

\* "8\t/r/A", "4\t/r/B", "12\t/r/C", "24\t/r", "du", "x\t/r/D", "2\t/r/\xff"
LineA     == <<"8", "\t">> \o PathA
LineB     == <<"4", "\t">> \o PathB
LineC     == <<"1", "2", "\t">> \o PathC
LineRoot  == <<"2", "4", "\t">> \o Root
LineNoTab == <<"d", "u">>
LineNaN   == <<"x", "\t">> \o PathD
LineBad   == <<"2", "\t", "/", "r", "/", BadByte>>

DuLines == {LineA, LineB, LineC, LineRoot, LineNoTab, LineNaN, LineBad}

\* text=True: the bytes read decode without UnicodeDecodeError
Decodable(lines) ==
    \A i \in DOMAIN lines : \A j \in DOMAIN lines[i] : lines[i][j] # BadByte

\* what du may print: up to MaxLines lines
DuPlans == UNION {[1..n -> DuLines] : n \in 0..MaxLines}

\* "/r/f", "/r/g"
FileP == <<"/", "r", "/", "f">>
FileQ == <<"/", "r", "/", "g">>

\* what mdfind or find may print: up to MaxFound lines, blank ones too
Listings == UNION {[1..n -> {FileP, FileQ, <<>>}] : n \in 0..MaxFound}

\* min_file_size_mb, and min_bytes = min_size_mb * 1024 * 1024
MinFileSizeMb == 100
MinBytes == MinFileSizeMb * 1024 * 1024

\* what os.path.getsize may answer for a path a tool printed
StatSizes == {1024, MinBytes, 2 * MinBytes}

\* values of top_n and file_count: the defaults and small ones
DefaultTopN == 20
DefaultFileCount == 10
TopNs == {-1, 0, 1, DefaultTopN}
FileCounts == {-1, 0, 1, DefaultFileCount}

\* os.statvfs(mount)
StatvfsResults == {[f_frsize |-> 4096, f_blocks |-> 100, f_bfree |-> 40,
                    f_bavail |-> 30]}

\* the keys of the plist diskutil prints: all three, or none of them
Plists == {[VolumeName |-> "Data", FilesystemType |-> "apfs",
            APFSContainerReference |-> "disk1"],
           [VolumeName |-> "", FilesystemType |-> "",
            APFSContainerReference |-> ""]}

------------------------------------------------------------------------------
(* The worker threads of scan()'s pool *)

\* ThreadPoolExecutor(max_workers=3)
MaxWorkers == 3

\* the probes a worker has begun and not finished
DiskRunning == disk_pc = "diskutil"
DirsRunning == dirs_pc \in {"communicate", "read", "kill", "parse"}
FilesRunning ==
    files_pc \in {"stat_mdfind", "stat_find", "check", "find", "sort"}

BusyWorkers ==
    (IF DiskRunning THEN 1 ELSE 0) + (IF DirsRunning THEN 1 ELSE 0)
       + (IF FilesRunning THEN 1 ELSE 0)

\* a pool of one worker
WorkerFreeOfOne(busy) == busy < 1

\* a submitted task is begun as soon as fewer than max_workers tasks are
\* being run: submit() starts a new thread up to that number
WorkerFree(busy) == busy < MaxWorkers

------------------------------------------------------------------------------
(* scanner.get_disk_info *)

NoDiskInfo == [total_bytes |-> 0, used_bytes |-> 0, free_bytes |-> 0,
               available_bytes |-> 0, volume_name |-> "", fs_type |-> "",
               apfs_container |-> ""]

\* lines 23-31: os.statvfs succeeds and the byte counts are taken from it,
\* or it raises OSError, which nothing catches
Statvfs ==
    /\ disk_pc = "statvfs"
    /\ WorkerFree(BusyWorkers)
    /\ \/ \E st \in StatvfsResults :
            /\ disk_info' = [total_bytes     |-> st.f_frsize * st.f_blocks,
                             used_bytes      |-> st.f_frsize * st.f_blocks
                                                   - st.f_frsize * st.f_bfree,
                             free_bytes      |-> st.f_frsize * st.f_bfree,
                             available_bytes |-> st.f_frsize * st.f_bavail,
                             volume_name     |-> "",
                             fs_type         |-> "",
                             apfs_container  |-> ""]
            /\ disk_pc' = "diskutil"
       \/ /\ disk_pc' = "raised"
          /\ UNCHANGED disk_info
    /\ started_at' = [started_at EXCEPT !.disk = clock]
    /\ UNCHANGED clock
    /\ UNCHANGED <<cmp_vars, db_vars, main_vars, dirs_vars, files_vars>>

\* lines 33-55: diskutil runs and its plist is read, or it exits non-zero,
\* times out, is absent or prints no plist: the fields stay empty
Diskutil ==
    /\ disk_pc = "diskutil"
    /\ \/ \E plist \in Plists :
            disk_info' = [disk_info EXCEPT
                !.volume_name    = plist.VolumeName,
                !.fs_type        = plist.FilesystemType,
                !.apfs_container = plist.APFSContainerReference]
       \/ \E failure \in {"nonzero", "timeout", "absent", "malformed"} :
            UNCHANGED disk_info
    /\ disk_pc' = "done"
    /\ UNCHANGED time_vars
    /\ UNCHANGED <<cmp_vars, db_vars, main_vars, dirs_vars, files_vars>>

------------------------------------------------------------------------------
(* scanner.scan_directories, and the du process it starts *)

\* line 63: Popen starts du, or fails (du absent): `except Exception`
Popen ==
    /\ dirs_pc = "popen"
    /\ WorkerFree(BusyWorkers)
    /\ \/ /\ du_state' = "running"
          /\ dirs_pc' = "communicate"
          /\ UNCHANGED directories
       \/ /\ directories' = <<>>
          /\ dirs_pc' = "done"
          /\ UNCHANGED du_state
    /\ UNCHANGED <<du_todo, du_pipe, comm_buf, dirs_stdout, du_printed,
                   du_by_timeout, dirs_timed_out>>
    /\ started_at' = [started_at EXCEPT !.dirs = clock]
    /\ UNCHANGED clock
    /\ UNCHANGED <<cmp_vars, db_vars, main_vars, disk_vars, files_vars>>

\* du prints its next line into the pipe
DuPrint ==
    /\ du_state = "running"
    /\ du_todo # <<>>
    /\ du_pipe' = Append(du_pipe, Head(du_todo))
    /\ du_printed' = Append(du_printed, Head(du_todo))
    /\ du_todo' = Tail(du_todo)
    /\ UNCHANGED <<dirs_pc, du_state, comm_buf, dirs_stdout, directories,
                   du_by_timeout, dirs_timed_out>>
    /\ UNCHANGED time_vars
    /\ UNCHANGED <<cmp_vars, db_vars, main_vars, disk_vars, files_vars>>

\* du has printed everything and exits, closing its end of the pipe
DuExit ==
    /\ du_state = "running"
    /\ du_todo = <<>>
    /\ du_state' = "exited"
    /\ UNCHANGED <<dirs_pc, du_todo, du_pipe, comm_buf, dirs_stdout,
                   directories, du_printed, du_by_timeout, dirs_timed_out>>
    /\ UNCHANGED time_vars
    /\ UNCHANGED <<cmp_vars, db_vars, main_vars, disk_vars, files_vars>>

\* line 69, inside communicate(): what is in the pipe is read and kept in
\* the Popen object until communicate() returns
CommunicateRead ==
    /\ dirs_pc = "communicate"
    /\ du_pipe # <<>>
    /\ comm_buf' = comm_buf \o du_pipe
    /\ du_pipe' = <<>>
    /\ UNCHANGED <<dirs_pc, du_state, du_todo, dirs_stdout, directories,
                   du_printed, du_by_timeout, dirs_timed_out>>
    /\ UNCHANGED time_vars
    /\ UNCHANGED <<cmp_vars, db_vars, main_vars, disk_vars, files_vars>>

\* line 69: communicate() returns at end of file with all it has read; if
\* that does not decode it raises UnicodeDecodeError, which `except
\* Exception` (lines 76-77) turns into []
CommunicateReturn ==
    /\ dirs_pc = "communicate"
    /\ du_state = "exited"
    /\ du_pipe = <<>>
    /\ IF Decodable(comm_buf)
       THEN /\ dirs_stdout' = comm_buf
            /\ dirs_pc' = "parse"
            /\ UNCHANGED directories
       ELSE /\ directories' = <<>>
            /\ dirs_pc' = "done"
            /\ UNCHANGED dirs_stdout
    /\ UNCHANGED <<du_state, du_todo, du_pipe, comm_buf,
                   du_printed, du_by_timeout, dirs_timed_out>>
    /\ UNCHANGED time_vars
    /\ UNCHANGED <<cmp_vars, db_vars, main_vars, disk_vars, files_vars>>

\* lines 69-70: the 300 seconds pass before du has exited; communicate()
\* raises TimeoutExpired and what it has read stays in the Popen object
CommunicateTimeout ==
    /\ dirs_pc = "communicate"
    /\ du_state = "running"
    /\ dirs_pc' = "read"
    /\ dirs_timed_out' = TRUE
    /\ du_by_timeout' = du_printed
    /\ UNCHANGED <<du_state, du_todo, du_pipe, comm_buf, dirs_stdout,
                   directories, du_printed>>
    /\ UNCHANGED time_vars
    /\ UNCHANGED <<cmp_vars, db_vars, main_vars, disk_vars, files_vars>>

\* the handler reading what communicate() had already read as well
StdoutAfterTimeoutSalvaged(buffered, unread) == buffered \o unread

\* line 73: what proc.stdout.read() returns at end of file: the lines
\* communicate() has not read
StdoutAfterTimeout(buffered, unread) == unread

\* line 73: proc.stdout.read() returns at end of file, that is once du has
\* exited by itself; if what it read does not decode it raises
\* UnicodeDecodeError inside the TimeoutExpired handler, where the
\* `except Exception` next to it does not apply
ReadToEof ==
    /\ dirs_pc = "read"
    /\ du_state = "exited"
    /\ IF Decodable(StdoutAfterTimeout(comm_buf, du_pipe))
       THEN /\ dirs_stdout' = StdoutAfterTimeout(comm_buf, du_pipe)
            /\ dirs_pc' = "kill"
       ELSE /\ dirs_pc' = "raised"
            /\ UNCHANGED dirs_stdout
    /\ du_pipe' = <<>>
    /\ UNCHANGED <<du_state, du_todo, comm_buf, directories, du_printed,
                   du_by_timeout, dirs_timed_out>>
    /\ UNCHANGED time_vars
    /\ UNCHANGED <<cmp_vars, db_vars, main_vars, disk_vars, files_vars>>

\* lines 74-75: proc.kill(); proc.wait()
KillWait ==
    /\ dirs_pc = "kill"
    /\ du_state' = IF du_state = "running" THEN "killed" ELSE du_state
    /\ dirs_pc' = "parse"
    /\ UNCHANGED <<du_todo, du_pipe, comm_buf, dirs_stdout, directories,
                   du_printed, du_by_timeout, dirs_timed_out>>
    /\ UNCHANGED time_vars
    /\ UNCHANGED <<cmp_vars, db_vars, main_vars, disk_vars, files_vars>>

\* lines 79-95
ParseSortTruncate ==
    /\ dirs_pc = "parse"
    /\ directories' = DirsOfOutput(dirs_stdout, Root, top_n)
    /\ dirs_pc' = "done"
    /\ UNCHANGED <<du_state, du_todo, du_pipe, comm_buf, dirs_stdout,
                   du_printed, du_by_timeout, dirs_timed_out>>
    /\ UNCHANGED time_vars
    /\ UNCHANGED <<cmp_vars, db_vars, main_vars, disk_vars, files_vars>>

------------------------------------------------------------------------------
(* scanner.find_large_files *)

FileEntry(p, s) == [path |-> p, size_bytes |-> s]

\* os.path.getsize raised OSError
StatFailed == -1

\* the fast tier reported unavailable: non-zero exit, timeout or no mdfind
MdfindUnavailable(outcome) == outcome \in {"nonzero", "timeout", "absent"}

\* lines 115-132: mdfind runs; it answers None when it exits non-zero,
\* times out or cannot be started, and goes on to its output otherwise
Mdfind ==
    /\ files_pc = "mdfind"
    /\ WorkerFree(BusyWorkers)
    /\ \E outcome \in {"ok", "nonzero", "timeout", "absent"} :
          /\ mdfind_outcome' = outcome
          /\ IF MdfindUnavailable(outcome)
             THEN /\ files_none' = TRUE
                  /\ files_pc' = "check"
                  /\ UNCHANGED <<tool_stdout, files>>
             ELSE /\ files_none' = FALSE
                  /\ tool_stdout' = StripLines(fs_listing)
                  /\ files' = <<>>
                  /\ files_pc' = "stat_mdfind"
    /\ UNCHANGED stat_log
    /\ UNCHANGED <<fs_listing, large_files, files_exc, find_calls>>
    /\ started_at' = [started_at EXCEPT !.files = clock]
    /\ UNCHANGED clock
    /\ UNCHANGED <<cmp_vars, db_vars, main_vars, disk_vars, dirs_vars>>

\* the path kept although getsize raised
AfterStatKeepsFailed(found, path, size) ==
    Append(found, FileEntry(path, size))

\* lines 136-140 and 168-172: the entry is appended, unless getsize raised
\* OSError: `continue`
AfterStat(found, path, size) ==
    IF size = StatFailed THEN found ELSE Append(found, FileEntry(path, size))

\* lines 133-140 and 165-172: one pass of `for path in ...`: a blank line
\* is skipped, the path is re-stat'ed, and dropped if that raises OSError
StatPath ==
    /\ files_pc \in {"stat_mdfind", "stat_find"}
    /\ tool_stdout # <<>>
    /\ tool_stdout' = Tail(tool_stdout)
    /\ IF Head(tool_stdout) = <<>>
       THEN UNCHANGED <<files, stat_log>>
       ELSE \E size \in StatSizes \cup {StatFailed} :
               /\ files' = AfterStat(files, Head(tool_stdout), size)
               /\ stat_log' = Append(stat_log,
                                     FileEntry(Head(tool_stdout), size))
    /\ UNCHANGED <<files_pc, fs_listing, files_none, large_files, files_exc,
                   mdfind_outcome, find_calls>>
    /\ UNCHANGED time_vars
    /\ UNCHANGED <<cmp_vars, db_vars, main_vars, disk_vars, dirs_vars>>

\* lines 141 and 173: `return files` of either tier
TierReturn ==
    /\ files_pc \in {"stat_mdfind", "stat_find"}
    /\ tool_stdout = <<>>
    /\ files_pc' = IF files_pc = "stat_mdfind" THEN "check" ELSE "sort"
    /\ UNCHANGED stat_log
    /\ UNCHANGED <<fs_listing, tool_stdout, files, files_none, large_files,
                   files_exc, mdfind_outcome, find_calls>>
    /\ UNCHANGED time_vars
    /\ UNCHANGED <<cmp_vars, db_vars, main_vars, disk_vars, dirs_vars>>

\* the fallback taken for an empty list as well
UseFallbackIfEmpty(is_none, found) == is_none \/ found = <<>>

\* line 104: if files is None
UseFallback(is_none, found) == is_none

\* lines 104-105
CheckFallback ==
    /\ files_pc = "check"
    /\ IF UseFallback(files_none, files)
       THEN /\ files_pc' = "find"
            /\ find_calls' = find_calls + 1
       ELSE /\ files_pc' = "sort"
            /\ UNCHANGED find_calls
    /\ UNCHANGED stat_log
    /\ UNCHANGED <<fs_listing, tool_stdout, files, files_none, large_files,
                   files_exc, mdfind_outcome>>
    /\ UNCHANGED time_vars
    /\ UNCHANGED <<cmp_vars, db_vars, main_vars, disk_vars, dirs_vars>>

\* lines 146-164: find runs and its output is taken whatever its exit
\* status; a timeout gives []; a missing find raises FileNotFoundError,
\* which `except subprocess.TimeoutExpired` lets through
Find ==
    /\ files_pc = "find"
    /\ \E outcome \in {"ok", "nonzero", "timeout", "absent"} :
          CASE outcome \in {"ok", "nonzero"} ->
                  /\ tool_stdout' = StripLines(fs_listing)
                  /\ files' = <<>>
                  /\ files_none' = FALSE
                  /\ files_pc' = "stat_find"
                  /\ UNCHANGED files_exc
            [] outcome = "timeout" ->
                  /\ files' = <<>>
                  /\ files_none' = FALSE
                  /\ files_pc' = "sort"
                  /\ UNCHANGED <<tool_stdout, files_exc>>
            [] outcome = "absent" ->
                  /\ files_exc' = "FileNotFoundError"
                  /\ files_pc' = "raised"
                  /\ UNCHANGED <<tool_stdout, files, files_none>>
    /\ UNCHANGED stat_log
    /\ UNCHANGED <<fs_listing, large_files, mdfind_outcome, find_calls>>
    /\ UNCHANGED time_vars
    /\ UNCHANGED <<cmp_vars, db_vars, main_vars, disk_vars, dirs_vars>>

\* lines 107-108
SortTruncate ==
    /\ files_pc = "sort"
    /\ large_files' = Slice(SortBySize(files), file_count)
    /\ files_pc' = "done"
    /\ UNCHANGED stat_log
    /\ UNCHANGED <<fs_listing, tool_stdout, files, files_none, files_exc,
                   mdfind_outcome, find_calls>>
    /\ UNCHANGED time_vars
    /\ UNCHANGED <<cmp_vars, db_vars, main_vars, disk_vars, dirs_vars>>

------------------------------------------------------------------------------
(* scanner.scan *)

\* a datetime, of which the model keeps the seconds and the microseconds
DateTime(sec, usec) == [s |-> sec, us |-> usec]

\* scan_id=None
NoScanId == 0

NoSnapshot == [scan_id |-> NoScanId, timestamp |-> DateTime(0, 0),
               root_path |-> <<>>, disk_info |-> NoDiskInfo,
               directories |-> <<>>, large_files |-> <<>>,
               total_scanned_bytes |-> 0]

\* what datetime.now() may answer: 9 s, 9.000005 s, 10 s
Timestamps == {DateTime(9, 0), DateTime(9, 5), DateTime(10, 0)}

\* the datetime b is later than the datetime a
Later(a, b) == b.s > a.s \/ (b.s = a.s /\ b.us > a.us)

\* the clock when scan() is called
ScanCalledAt == DateTime(9, 0)

\* a probe that has not begun to run
NotStarted == DateTime(0, 0)

\* time passes: datetime.now() answers a later value from now on
Tick ==
    /\ \E now \in Timestamps :
          /\ Later(clock, now)
          /\ clock' = now
    /\ UNCHANGED started_at
    /\ UNCHANGED <<cmp_vars, db_vars, main_vars, disk_vars, dirs_vars,
                   files_vars>>

\* a future whose result() does not wait for the task
FutureDoneNoWait(pc) == TRUE

\* Future.result() returns or raises, and the pool's worker is finished
FutureDone(pc) == pc \in {"done", "raised"}

\* line 187: pool.submit(get_disk_info, root): a worker thread starts it
SubmitDisk ==
    /\ main_pc = "submit_disk"
    /\ main_pc' = "submit_dirs"
    /\ disk_pc' = "statvfs"
    /\ UNCHANGED <<snapshot, top_n, file_count, disk_info>>
    /\ UNCHANGED time_vars
    /\ UNCHANGED <<cmp_vars, db_vars, dirs_vars, files_vars>>

\* line 188: pool.submit(scan_directories, root, depth, top_n)
SubmitDirs ==
    /\ main_pc = "submit_dirs"
    /\ main_pc' = "submit_files"
    /\ dirs_pc' = "popen"
    /\ UNCHANGED <<snapshot, top_n, file_count>>
    /\ UNCHANGED <<du_state, du_todo, du_pipe, comm_buf, dirs_stdout,
                   directories, du_printed, du_by_timeout, dirs_timed_out>>
    /\ UNCHANGED time_vars
    /\ UNCHANGED <<cmp_vars, db_vars, disk_vars, files_vars>>

\* lines 189-191: pool.submit(find_large_files, root, ..., file_count)
SubmitFiles ==
    /\ main_pc = "submit_files"
    /\ main_pc' = "result_disk"
    /\ files_pc' = "mdfind"
    /\ UNCHANGED <<snapshot, top_n, file_count>>
    /\ UNCHANGED stat_log
    /\ UNCHANGED <<fs_listing, tool_stdout, files, files_none, large_files,
                   files_exc, mdfind_outcome, find_calls>>
    /\ UNCHANGED time_vars
    /\ UNCHANGED <<cmp_vars, db_vars, disk_vars, dirs_vars>>

\* line 193: disk_future.result(), re-raising what the task raised
ResultDisk ==
    /\ main_pc = "result_disk"
    /\ FutureDone(disk_pc)
    /\ main_pc' = IF disk_pc = "raised" THEN "unwind" ELSE "result_dirs"
    /\ UNCHANGED <<snapshot, top_n, file_count>>
    /\ UNCHANGED time_vars
    /\ UNCHANGED <<cmp_vars, db_vars, disk_vars, dirs_vars, files_vars>>

\* line 194: dirs_future.result()
ResultDirs ==
    /\ main_pc = "result_dirs"
    /\ FutureDone(dirs_pc)
    /\ main_pc' = IF dirs_pc = "raised" THEN "unwind" ELSE "result_files"
    /\ UNCHANGED <<snapshot, top_n, file_count>>
    /\ UNCHANGED time_vars
    /\ UNCHANGED <<cmp_vars, db_vars, disk_vars, dirs_vars, files_vars>>

\* line 195: files_future.result()
ResultFiles ==
    /\ main_pc = "result_files"
    /\ FutureDone(files_pc)
    /\ main_pc' = IF files_pc = "raised" THEN "unwind" ELSE "exit_pool"
    /\ UNCHANGED <<snapshot, top_n, file_count>>
    /\ UNCHANGED time_vars
    /\ UNCHANGED <<cmp_vars, db_vars, disk_vars, dirs_vars, files_vars>>

\* the end of the `with` block: shutdown(wait=True) joins the workers
PoolJoined == FutureDone(disk_pc) /\ FutureDone(dirs_pc) /\ FutureDone(files_pc)

\* lines 197-207: the pool is left and the ScanResult is built and returned
Return ==
    /\ main_pc = "exit_pool"
    /\ PoolJoined
    /\ snapshot' =
                   [scan_id             |-> NoScanId,
                    timestamp           |-> clock,
                    root_path           |-> Root,
                    disk_info           |-> disk_info,
                    directories         |-> directories,
                    large_files         |-> large_files,
                    total_scanned_bytes |-> SumSizes(directories)]
    /\ main_pc' = "returned"
    /\ UNCHANGED <<top_n, file_count>>
    /\ UNCHANGED time_vars
    /\ UNCHANGED <<cmp_vars, db_vars, disk_vars, dirs_vars, files_vars>>

\* a result() call raised: the pool is left, joining the workers, and the
\* exception leaves scan()
Raise ==
    /\ main_pc = "unwind"
    /\ PoolJoined
    /\ main_pc' = "raised"
    /\ UNCHANGED <<snapshot, top_n, file_count>>
    /\ UNCHANGED time_vars
    /\ UNCHANGED <<cmp_vars, db_vars, disk_vars, dirs_vars, files_vars>>

------------------------------------------------------------------------------
(* db.py: the store of scans *)

\* most scans saved in one run of the store
MaxScans == 3

OtherRoot == <<"/", "s">>
Roots == {Root, OtherRoot}

Digit(d) ==
    CASE d = 0 -> "0" [] d = 1 -> "1" [] d = 2 -> "2" [] d = 3 -> "3"
      [] d = 4 -> "4" [] d = 5 -> "5" [] d = 6 -> "6" [] d = 7 -> "7"
      [] d = 8 -> "8" [] d = 9 -> "9"

RECURSIVE ZeroPadded(_, _)
\* "%0*d" % (width, n)
ZeroPadded(n, width) ==
    IF width = 0 THEN <<>>
    ELSE ZeroPadded(n \div 10, width - 1) \o <<Digit(n % 10)>>

\* datetime.isoformat(), from the seconds on: "SS", and ".ffffff" after it
\* unless the microseconds are 0
IsoFormat(dt) ==
    ZeroPadded(dt.s, 2)
       \o (IF dt.us = 0 THEN <<>> ELSE <<".">> \o ZeroPadded(dt.us, 6))

\* datetime.fromisoformat()
FromIsoFormat(str) ==
    DateTime(IntOf(SubSeq(str, 1, 2)),
             IF Len(str) > 2 THEN IntOf(SubSeq(str, 4, Len(str))) ELSE 0)

\* the code point of a character of a timestamp
CharCode(c) == IF c = "." THEN 46 ELSE 48 + DigitVal(c)

RECURSIVE TextLess(_, _)
\* a < b on TEXT values (collation BINARY: memcmp, a proper prefix is less)
TextLess(a, b) ==
    IF b = <<>> THEN FALSE
    ELSE IF a = <<>> THEN TRUE
    ELSE IF Head(a) = Head(b) THEN TextLess(Tail(a), Tail(b))
    ELSE CharCode(Head(a)) < CharCode(Head(b))

\* the orders in which a SELECT may return a set of rows
RowOrders(rows) ==
    {o \in [1..Cardinality(rows) -> rows] :
        \A i, j \in DOMAIN o : i # j => o[i] # o[j]}

\* ORDER BY timestamp ASC
OrderByTimestampAsc(rows) ==
    {o \in RowOrders(rows) :
        \A i, j \in DOMAIN o :
           i < j => ~TextLess(o[j].timestamp, o[i].timestamp)}

\* ORDER BY timestamp DESC: rows of equal timestamp come in any order
OrderByTimestampDesc(rows) ==
    {o \in RowOrders(rows) :
        \A i, j \in DOMAIN o :
           i < j => ~TextLess(o[i].timestamp, o[j].timestamp)}

\* SELECT * FROM scans WHERE root_path = ? ORDER BY timestamp DESC
ScansOfRoot(root_path) ==
    OrderByTimestampDesc({r \in scans : r.root_path = root_path})

\* lines 65-83: the row INSERTed INTO scans
ScanRow(id, result) ==
    [id                  |-> id,
     timestamp           |-> IsoFormat(result.timestamp),
     root_path           |-> result.root_path,
     total_scanned_bytes |-> result.total_scanned_bytes,
     disk_info           |-> result.disk_info]

\* lines 87-98: the rows INSERTed INTO entries, directories first
EntryRows(last_id, scan_id, result) ==
    {[id |-> last_id + i, scan_id |-> scan_id,
      path |-> result.directories[i].path,
      size_bytes |-> result.directories[i].size_bytes,
      is_dir |-> 1] : i \in DOMAIN result.directories}
    \cup
    {[id |-> last_id + Len(result.directories) + i, scan_id |-> scan_id,
      path |-> result.large_files[i].path,
      size_bytes |-> result.large_files[i].size_bytes,
      is_dir |-> 0] : i \in DOMAIN result.large_files}

RECURSIVE ById(_)
\* rows in the order of their ids
ById(rows) ==
    IF rows = {} THEN <<>>
    ELSE LET first == CHOOSE r \in rows : \A q \in rows : r.id <= q.id
         IN  <<first>> \o ById(rows \ {first})

\* the SELECT without `AND is_dir = ?`
EntriesOfAnyKind(scan_id, is_dir) ==
    LET rows == ById({e \in entries : e.scan_id = scan_id})
    IN  SortBySize([i \in DOMAIN rows |->
                      DirEntry(rows[i].path, rows[i].size_bytes)])

\* lines 118-125: SELECT path, size_bytes FROM entries WHERE scan_id = ?
\* AND is_dir = ? ORDER BY size_bytes DESC
EntriesOf(scan_id, is_dir) ==
    LET rows == ById({e \in entries :
                         e.scan_id = scan_id /\ e.is_dir = is_dir})
    IN  SortBySize([i \in DOMAIN rows |->
                      DirEntry(rows[i].path, rows[i].size_bytes)])

\* _row_to_scan(row, conn)
RowToScan(row) ==
    [scan_id             |-> row.id,
     timestamp           |-> FromIsoFormat(row.timestamp),
     root_path           |-> row.root_path,
     disk_info           |-> row.disk_info,
     directories         |-> EntriesOf(row.id, 1),
     large_files         |-> EntriesOf(row.id, 0),
     total_scanned_bytes |-> row.total_scanned_bytes]

\* a call of a db function: its name, its arguments, and what it returned:
\* a ScanResult if found, or a number
DbCall(op, root_path, n, found, scan, returned) ==
    [op |-> op, root_path |-> root_path, n |-> n, found |-> found,
     scan |-> scan, returned |-> returned]

NoDbCall == DbCall("", <<>>, 0, FALSE, NoSnapshot, 0)

\* the main thread is not inside scan(): it may call the store
StoreCallable == main_pc \in {"none", "returned"}

\* save_scan(result), and result.scan_id set by it (line 100)
save_scan(result) ==
    LET scan_id == seq_scans + 1
    IN  /\ scans' = scans \cup {ScanRow(scan_id, result)}
        /\ entries' = entries \cup EntryRows(seq_entries, scan_id, result)
        /\ seq_scans' = scan_id
        /\ seq_entries' = seq_entries + Len(result.directories)
                                      + Len(result.large_files)
        /\ saved' = saved \cup {[result EXCEPT !.scan_id = scan_id]}
        /\ db_call' = DbCall("save_scan", result.root_path, 0, FALSE,
                             NoSnapshot, scan_id)

\* main.py:74: scan_cmd saves the ScanResult that scan() returned
SaveReturned ==
    /\ main_pc = "returned"
    /\ snapshot.scan_id = NoScanId
    /\ save_scan(snapshot)
    /\ snapshot' = [snapshot EXCEPT !.scan_id = seq_scans + 1]
    /\ UNCHANGED <<main_pc, top_n, file_count>>
    /\ UNCHANGED <<cmp_vars, disk_vars, dirs_vars, files_vars, time_vars>>

\* the ScanResults saved when the store is run by itself: two roots, the
\* three timestamps, two directories and one large file
StoreDirLists == {<<DirEntry(PathB, 200), DirEntry(PathA, 100)>>}

StoreResults ==
    {[scan_id |-> NoScanId, timestamp |-> ts, root_path |-> root,
      disk_info |-> NoDiskInfo, directories |-> dirs,
      large_files |-> <<FileEntry(FileP, MinBytes)>>,
      total_scanned_bytes |-> SumSizes(dirs)] :
        ts \in Timestamps, root \in Roots, dirs \in StoreDirLists}

\* save_scan called with a ScanResult of an earlier scan
SaveScan ==
    /\ StoreCallable
    /\ seq_scans < MaxScans
    /\ \E result \in StoreResults : save_scan(result)
    /\ UNCHANGED <<cmp_vars, scan_vars>>

\* get_scan_by_id(scan_id)
GetScanById ==
    /\ StoreCallable
    /\ \E scan_id \in 1..(seq_scans + 1) :
          LET rows == {r \in scans : r.id = scan_id}
          IN  db_call' =
                 IF rows = {}
                 THEN DbCall("get_scan_by_id", <<>>, scan_id, FALSE,
                             NoSnapshot, 0)
                 ELSE DbCall("get_scan_by_id", <<>>, scan_id, TRUE,
                             RowToScan(CHOOSE r \in rows : TRUE), 0)
    /\ UNCHANGED <<scans, entries, seq_scans, seq_entries, saved>>
    /\ UNCHANGED <<cmp_vars, scan_vars>>

\* get_latest_scan(root_path): ... LIMIT 1, fetchone()
GetLatestScan ==
    /\ StoreCallable
    /\ \E root_path \in Roots : \E rows \in ScansOfRoot(root_path) :
          db_call' =
             IF rows = <<>>
             THEN DbCall("get_latest_scan", root_path, 0, FALSE,
                         NoSnapshot, 0)
             ELSE DbCall("get_latest_scan", root_path, 0, TRUE,
                         RowToScan(rows[1]), 0)
    /\ UNCHANGED <<scans, entries, seq_scans, seq_entries, saved>>
    /\ UNCHANGED <<cmp_vars, scan_vars>>

\* get_previous_scan(root_path): ... LIMIT 2, rows[1] unless len(rows) < 2
GetPreviousScan ==
    /\ StoreCallable
    /\ \E root_path \in Roots : \E rows \in ScansOfRoot(root_path) :
          db_call' =
             IF Len(rows) < 2
             THEN DbCall("get_previous_scan", root_path, 0, FALSE,
                         NoSnapshot, 0)
             ELSE DbCall("get_previous_scan", root_path, 0, TRUE,
                         RowToScan(rows[2]), 0)
    /\ UNCHANGED <<scans, entries, seq_scans, seq_entries, saved>>
    /\ UNCHANGED <<cmp_vars, scan_vars>>

\* seq[:keep] in the place of seq[keep:]
SliceUpTo(seq, keep) == Slice(seq, keep)

\* seq[keep:]
SliceFrom(seq, keep) ==
    IF keep >= 0 THEN SubSeq(seq, keep + 1, Len(seq))
    ELSE SubSeq(seq, (IF Len(seq) + keep > 0 THEN Len(seq) + keep ELSE 0) + 1,
                Len(seq))

\* values of keep
Keeps == {-1, 0, 1}

\* lines 248-252: the ids of ids[keep:] for one root
ToDelete(rows, keep) ==
    {SliceFrom(rows, keep)[i].id : i \in DOMAIN SliceFrom(rows, keep)}

\* prune_old_scans(keep): for every root the scans after the first `keep`
\* in the order of decreasing timestamp are deleted, and their entries with
\* them (ON DELETE CASCADE, foreign_keys=ON)
PruneOldScans ==
    /\ StoreCallable
    /\ \E keep \in Keeps :
       \E rows1 \in ScansOfRoot(Root) : \E rows2 \in ScansOfRoot(OtherRoot) :
          LET to_delete == ToDelete(rows1, keep) \cup ToDelete(rows2, keep)
          IN  /\ scans' = {r \in scans : r.id \notin to_delete}
              /\ entries' = {e \in entries : e.scan_id \notin to_delete}
              /\ db_call' = DbCall("prune_old_scans", <<>>, keep, FALSE,
                                   NoSnapshot, Cardinality(to_delete))
    /\ UNCHANGED <<seq_scans, seq_entries, saved>>
    /\ UNCHANGED <<cmp_vars, scan_vars>>

------------------------------------------------------------------------------
(* Specifications *)

vars == <<cmp_vars, scan_vars, db_vars>>

NoComparison == [raised |-> FALSE, trends |-> <<>>, overall_delta |-> 0,
                 new_dirs |-> <<>>, removed_dirs |-> <<>>]

\* no comparison is under way
CmpRest ==
    /\ current = ScanOf(<<>>)
    /\ previous = ScanOf(<<>>)
    /\ cmp_pc = "none"
    /\ comparison = NoComparison

\* the database file before the first scan is saved
StoreEmpty ==
    /\ scans = {}
    /\ entries = {}
    /\ seq_scans = 0
    /\ seq_entries = 0
    /\ db_call = NoDbCall
    /\ saved = {}

\* scan() is not under way
MainRest ==
    /\ main_pc = "none"
    /\ snapshot = NoSnapshot

\* the clock when scan() is called, no probe running yet
TimeRest ==
    /\ clock = ScanCalledAt
    /\ started_at = [disk |-> NotStarted, dirs |-> NotStarted,
                     files |-> NotStarted]

\* the three probes before they start
DiskRest ==
    /\ disk_pc = "idle"
    /\ disk_info = NoDiskInfo

DirsRest ==
    /\ dirs_pc = "idle"
    /\ du_state = "none"
    /\ du_pipe = <<>>
    /\ comm_buf = <<>>
    /\ dirs_stdout = <<>>
    /\ directories = <<>>
    /\ du_printed = <<>>
    /\ du_by_timeout = <<>>
    /\ dirs_timed_out = FALSE

FilesRest ==
    /\ files_pc = "idle"
    /\ tool_stdout = <<>>
    /\ files = <<>>
    /\ files_none = FALSE
    /\ large_files = <<>>
    /\ files_exc = ""
    /\ mdfind_outcome = ""
    /\ find_calls = 0
    /\ stat_log = <<>>

\* ---- compare_scans on two snapshots ----

CompareInit ==
    /\ TimeRest
    /\ current \in Snapshots
    /\ previous \in Snapshots
    /\ cmp_pc = "ready"
    /\ comparison = NoComparison
    /\ StoreEmpty
    /\ MainRest /\ DiskRest /\ DirsRest /\ FilesRest
    /\ top_n = DefaultTopN
    /\ file_count = DefaultFileCount
    /\ du_todo = <<>>
    /\ fs_listing = <<>>

\* a call of compare_scans(current, previous)
CompareScans ==
    /\ cmp_pc = "ready"
    /\ \E order \in KeyOrders(AllKeys(current, previous)) :
          LET c == compare_scans(current, previous, order)
          IN  /\ comparison' = c
              /\ cmp_pc' = IF c.raised THEN "raised" ELSE "returned"
    /\ UNCHANGED <<current, previous>>
    /\ UNCHANGED <<scan_vars, db_vars>>

CompareNext == CompareScans

SpecCompare == CompareInit /\ [][CompareNext]_vars

\* ---- scan(): the calling thread and the three workers ----

DiskNext == Statvfs \/ Diskutil

DirsNext ==
    \/ Popen \/ DuPrint \/ DuExit
    \/ CommunicateRead \/ CommunicateReturn \/ CommunicateTimeout
    \/ ReadToEof \/ KillWait \/ ParseSortTruncate

FilesNext == Mdfind \/ StatPath \/ TierReturn \/ CheckFallback \/ Find
             \/ SortTruncate

MainNext ==
    \/ SubmitDisk \/ SubmitDirs \/ SubmitFiles
    \/ ResultDisk \/ ResultDirs \/ ResultFiles
    \/ Return \/ Raise

\* what du prints and what the search tools print during a scan
ScanPlans == {<<>>, <<LineA, LineRoot>>, <<LineB, LineC>>}
ScanListings == {<<>>, <<FileP, FileQ>>}

Init ==
    /\ TimeRest
    /\ CmpRest /\ StoreEmpty
    /\ main_pc = "submit_disk"
    /\ snapshot = NoSnapshot
    /\ top_n \in {1, DefaultTopN}
    /\ file_count \in {1, DefaultFileCount}
    /\ DiskRest /\ DirsRest /\ FilesRest
    /\ du_todo \in ScanPlans
    /\ fs_listing \in ScanListings

\* main.py: scan_cmd saves the result of the scan (line 74); show_cmd looks
\* a scan up by its id (line 99)
AfterScanNext == SaveReturned \/ GetScanById

Next == MainNext \/ DiskNext \/ DirsNext \/ FilesNext \/ AfterScanNext

Spec == Init /\ [][Next]_vars

\* ---- scan() with its default arguments on one tree ----

ScanOneInit ==
    /\ TimeRest
    /\ CmpRest /\ StoreEmpty
    /\ main_pc = "submit_disk"
    /\ snapshot = NoSnapshot
    /\ top_n = DefaultTopN
    /\ file_count = DefaultFileCount
    /\ DiskRest /\ DirsRest /\ FilesRest
    /\ du_todo = <<LineA>>
    /\ fs_listing = <<FileP>>

SpecScanOne == ScanOneInit /\ [][Next]_vars

\* ---- the same scan while the clock advances ----

TimedNext == Next \/ Tick

SpecScanTimed == ScanOneInit /\ [][TimedNext]_vars

\* ---- the store, called by the commands of main.py ----

StoreInit ==
    /\ TimeRest
    /\ CmpRest /\ StoreEmpty
    /\ MainRest /\ DiskRest /\ DirsRest /\ FilesRest
    /\ top_n = DefaultTopN
    /\ file_count = DefaultFileCount
    /\ du_todo = <<>>
    /\ fs_listing = <<>>

StoreNext ==
    \/ SaveScan \/ GetScanById \/ GetLatestScan \/ GetPreviousScan
    \/ PruneOldScans

SpecStore == StoreInit /\ [][StoreNext]_vars

\* ---- scan_directories called by itself ----

DirsInit ==
    /\ TimeRest
    /\ CmpRest /\ StoreEmpty /\ MainRest /\ DiskRest /\ FilesRest
    /\ top_n \in TopNs
    /\ file_count = DefaultFileCount
    /\ fs_listing = <<>>
    /\ dirs_pc = "popen"
    /\ du_state = "none"
    /\ du_todo \in DuPlans
    /\ du_pipe = <<>>
    /\ comm_buf = <<>>
    /\ dirs_stdout = <<>>
    /\ directories = <<>>
    /\ du_printed = <<>>
    /\ du_by_timeout = <<>>
    /\ dirs_timed_out = FALSE

SpecDirs == DirsInit /\ [][DirsNext]_vars

\* the steps of scan_directories itself; DuPrint and DuExit are steps of the
\* du process
DirsCode ==
    \/ Popen \/ CommunicateRead \/ CommunicateReturn \/ CommunicateTimeout
    \/ ReadToEof \/ KillWait \/ ParseSortTruncate

\* the thread that runs scan_directories goes on whenever it can, and the
\* timeout of communicate() expires if du stays; du itself may stop printing
\* and never exit
SpecDirsFair == DirsInit /\ [][DirsNext]_vars /\ WF_vars(DirsCode)

\* ---- find_large_files called by itself ----

FilesInit ==
    /\ TimeRest
    /\ CmpRest /\ StoreEmpty /\ MainRest /\ DiskRest /\ DirsRest
    /\ top_n = DefaultTopN
    /\ du_todo = <<>>
    /\ file_count \in FileCounts
    /\ fs_listing \in Listings
    /\ files_pc = "mdfind"
    /\ tool_stdout = <<>>
    /\ files = <<>>
    /\ files_none = FALSE
    /\ large_files = <<>>
    /\ files_exc = ""
    /\ mdfind_outcome = ""
    /\ find_calls = 0
    /\ stat_log = <<>>

SpecFiles == FilesInit /\ [][FilesNext]_vars

\* ---- either of the two listing probes called by itself ----

ProbeInit == DirsInit \/ FilesInit

ProbeNext == DirsNext \/ FilesNext

SpecProbe == ProbeInit /\ [][ProbeNext]_vars

------------------------------------------------------------------------------
(* Properties of the scan *)

FilesEnded == files_pc \in {"done", "raised"}

\* mdfind printed no path at all
ZeroMatches == \A i \in DOMAIN fs_listing : fs_listing[i] = <<>>

\* C1: the fallback tier (find) is invoked if and only if the fast tier
\* (mdfind) reported unavailable: it is invoked after a timeout of mdfind,
\* and after a successful mdfind with zero matches it is not invoked and the
\* result is the empty list.
C1_FallbackIffUnavailable ==
    /\ find_calls <= 1
    /\ find_calls = 1 => MdfindUnavailable(mdfind_outcome)
    /\ FilesEnded =>
          /\ find_calls = 1 <=> mdfind_outcome \in {"nonzero", "timeout", "absent"}
          /\ mdfind_outcome = "timeout" => find_calls = 1
          /\ mdfind_outcome = "ok" => find_calls = 0
          /\ (mdfind_outcome = "ok" /\ ZeroMatches) =>
                files_pc = "done" /\ large_files = <<>>

\* mdfind timed out and the files returned are those find printed
C1_Witness ==
    /\ files_pc = "done"
    /\ mdfind_outcome = "timeout"
    /\ find_calls = 1
    /\ large_files # <<>>

\* C2 as stated: scan() never raises for a failure of a probe, whatever the
\* outcomes of statvfs, diskutil, du, mdfind and find: it returns a
\* ScanResult (with an empty large-file list when mdfind is unavailable and
\* find is absent).
C2_AsStated == main_pc # "raised"

\* the lines of a du output that parse to an entry
WellFormed(lines) == ParseLines(StripLines(lines), Root)

\* C3 as stated: when the timeout expires while du is running and has
\* printed lines, the result is built from the lines printed before du is
\* terminated, and is not empty when one of them is well formed.
C3_AsStated ==
    (dirs_pc = "done" /\ dirs_timed_out /\ du_by_timeout # <<>>) =>
        /\ directories = DirsOfOutput(du_printed, Root, top_n)
        /\ (WellFormed(du_by_timeout) # <<>> /\ top_n >= 1) =>
              directories # <<>>

\* C4: scan() returns its ScanResult only after the three probes have
\* completed, no ScanResult exists while a probe is running, and its
\* disk_info, directories and large_files are the probes' final results.
C4_JoinBeforeReturn ==
    /\ snapshot # NoSnapshot => main_pc = "returned"
    /\ main_pc = "returned" =>
          /\ disk_pc = "done" /\ dirs_pc = "done" /\ files_pc = "done"
          /\ snapshot.disk_info = disk_info
          /\ snapshot.directories = directories
          /\ snapshot.large_files = large_files

\* a scan that returned results of all three probes, du having timed out
C4_Witness ==
    /\ main_pc = "returned"
    /\ snapshot.disk_info.volume_name # ""
    /\ snapshot.directories # <<>>
    /\ snapshot.large_files # <<>>
    /\ dirs_timed_out

------------------------------------------------------------------------------
(* Properties of compare_scans *)

Returned == cmp_pc = "returned"

CurNames  == {BaseKey(current.directories[i].path) :
                 i \in DOMAIN current.directories}
PrevNames == {BaseKey(previous.directories[i].path) :
                 i \in DOMAIN previous.directories}

\* the entries of a list of DirEntry or TrendEntry whose base name is k
Named(list, k) == {i \in DOMAIN list : BaseKey(list[i].path) = k}

\* the entry of a directory list that is matched under base name k
Matched(dirs, k) == dirs[SeqMax(Named(dirs, k))]

InScenario == current = ScenarioCurrent /\ previous = ScenarioPrevious

TrendA == [path |-> PathA, current_bytes |-> 100, previous_bytes |-> 80,
           delta_bytes |-> 20, delta_percent |-> [num |-> 25, den |-> 1]]
TrendB == [path |-> PathB, current_bytes |-> 200, previous_bytes |-> 200,
           delta_bytes |-> 0, delta_percent |-> FloatZero]

\* C5 as stated: current {A: 100, B: 200} against previous {A: 80, B: 200,
\* C: 50} gives exactly one trend, A with delta +20 and +25 percent,
\* removed_dirs = [C: 50] and new_dirs = [].
C5_AsStated ==
    (Returned /\ InScenario) =>
        /\ comparison.trends = <<TrendA>>
        /\ comparison.removed_dirs = <<DirEntry(PathC, 50)>>
        /\ comparison.new_dirs = <<>>

\* C5 amended: in that scenario the trends are A (delta +20, +25 percent)
\* followed by B (delta 0, 0 percent): B is in both snapshots and gets a
\* trend entry too; removed_dirs = [C: 50] and new_dirs = [].
C5_ScenarioTrends ==
    (Returned /\ InScenario) =>
        /\ comparison.trends = <<TrendA, TrendB>>
        /\ comparison.removed_dirs = <<DirEntry(PathC, 50)>>
        /\ comparison.new_dirs = <<>>

C5_Witness == Returned /\ InScenario

\* C6: a base name found in exactly one snapshot is once in new_dirs (with
\* an entry of current) or once in removed_dirs (with an entry of previous),
\* according to its side, never in the other list and never in trends; and
\* an empty previous against current {D: 500} gives new_dirs = [D: 500] and
\* nothing else.
C6_OneSidedNames ==
    Returned =>
        /\ \A k \in CurNames \ PrevNames :
              /\ Cardinality(Named(comparison.new_dirs, k)) = 1
              /\ \A i \in Named(comparison.new_dirs, k) :
                    \E j \in Named(current.directories, k) :
                        comparison.new_dirs[i] = current.directories[j]
              /\ Named(comparison.removed_dirs, k) = {}
              /\ Named(comparison.trends, k) = {}
        /\ \A k \in PrevNames \ CurNames :
              /\ Cardinality(Named(comparison.removed_dirs, k)) = 1
              /\ \A i \in Named(comparison.removed_dirs, k) :
                    \E j \in Named(previous.directories, k) :
                        comparison.removed_dirs[i] = previous.directories[j]
              /\ Named(comparison.new_dirs, k) = {}
              /\ Named(comparison.trends, k) = {}
        /\ (current = ScenarioOnlyD /\ previous.directories = <<>>) =>
              /\ comparison.new_dirs = <<DirEntry(PathD, 500)>>
              /\ comparison.trends = <<>>
              /\ comparison.removed_dirs = <<>>

C6_Witness ==
    /\ Returned
    /\ current = ScenarioOnlyD
    /\ previous.directories = <<>>

\* C7: overall_delta is current.total_scanned_bytes minus
\* previous.total_scanned_bytes, whatever the directory lists hold.
C7_OverallDelta ==
    Returned =>
        comparison.overall_delta =
            current.total_scanned_bytes - previous.total_scanned_bytes

\* the totals differ from what the matched entries add up to
C7_Witness ==
    /\ Returned
    /\ comparison.trends # <<>>
    /\ comparison.new_dirs # <<>>
    /\ comparison.overall_delta # OverallDeltaFromTrends(current, previous,
                                                        comparison.trends)

\* C8: every trend entry carries the sizes of the matched current and
\* previous entries, delta_bytes is their signed difference, delta_percent
\* is 0 when previous_bytes is 0 and delta_bytes / previous_bytes * 100
\* otherwise, and no call ends in a division by zero.
C8_TrendArithmetic ==
    /\ cmp_pc # "raised"
    /\ Returned =>
          \A i \in DOMAIN comparison.trends :
              LET t == comparison.trends[i]
                  k == BaseKey(t.path)
              IN  /\ t.current_bytes = Matched(current.directories, k).size_bytes
                  /\ t.previous_bytes = Matched(previous.directories, k).size_bytes
                  /\ t.delta_bytes = t.current_bytes - t.previous_bytes
                  /\ t.delta_percent.den > 0
                  /\ t.previous_bytes = 0 => t.delta_percent = FloatZero
                  /\ t.previous_bytes # 0 =>
                        t.delta_percent.num * t.previous_bytes =
                            t.delta_bytes * 100 * t.delta_percent.den

\* one matched entry had previous size 0, another grew from a non-zero size
C8_Witness ==
    /\ Returned
    /\ \E i, j \in DOMAIN comparison.trends :
          /\ comparison.trends[i].previous_bytes = 0
          /\ comparison.trends[i].current_bytes > 0
          /\ comparison.trends[j].previous_bytes > 0
          /\ comparison.trends[j].delta_bytes # 0

\* C9: the trends are in order of non-increasing absolute delta.
C9_TrendsSorted ==
    Returned =>
        \A i \in DOMAIN comparison.trends :
            i < Len(comparison.trends) =>
                Abs(comparison.trends[i].delta_bytes) >=
                    Abs(comparison.trends[i + 1].delta_bytes)

\* a shrinking directory is ranked before a smaller growth
C9_Witness ==
    /\ Returned
    /\ Len(comparison.trends) >= 2
    /\ comparison.trends[1].delta_bytes < 0
    /\ comparison.trends[2].delta_bytes > 0
    /\ Abs(comparison.trends[1].delta_bytes) > comparison.trends[2].delta_bytes

\* C10: a snapshot compared with itself gives delta 0 in every trend entry,
\* no new and no removed directories and overall_delta 0, also when several
\* of its paths share a base name.
C10_SelfCompare ==
    (Returned /\ current = previous) =>
        /\ \A i \in DOMAIN comparison.trends :
              comparison.trends[i].delta_bytes = 0
        /\ comparison.new_dirs = <<>>
        /\ comparison.removed_dirs = <<>>
        /\ comparison.overall_delta = 0

\* two paths of the snapshot share a base name and differ in size
C10_Witness ==
    /\ Returned
    /\ current = previous
    /\ Len(current.directories) = 2
    /\ Cardinality(CurNames) = 1
    /\ current.directories[1].size_bytes # current.directories[2].size_bytes
    /\ current.total_scanned_bytes > 0
    /\ comparison.trends # <<>>

------------------------------------------------------------------------------
(* Properties of the two listing probes *)

\* the entries scan_directories parsed from the output it read, and the
\* entries find_large_files collected, before the sort
ParsedDirs == ParseLines(StripLines(dirs_stdout), Root)
ParsedFiles == files

\* C11 as stated: for every integer top_n / file_count, 0 and negative values
\* included, scan_directories returns at most top_n entries and
\* find_large_files returns at most file_count entries.
C11_AsStated ==
    /\ dirs_pc = "done" => Len(directories) <= top_n
    /\ files_pc = "done" => Len(large_files) <= file_count

\* the length of all[:n]
SliceLen(len, n) ==
    IF n >= 0 THEN (IF n < len THEN n ELSE len)
    ELSE (IF len + n > 0 THEN len + n ELSE 0)

\* C11, amended: for top_n >= 0 (file_count >= 0) the probes return at most
\* top_n (file_count) entries; for a negative value they return all entries
\* but the last -top_n (-file_count) of the sorted list, which is more than
\* top_n.
C11_AtMostN ==
    /\ dirs_pc = "done" =>
          /\ Len(directories) = SliceLen(Len(ParsedDirs), top_n)
          /\ top_n >= 0 => Len(directories) <= top_n
          /\ top_n < 0 => Len(directories) > top_n
    /\ files_pc = "done" =>
          /\ Len(large_files) = SliceLen(Len(ParsedFiles), file_count)
          /\ file_count >= 0 => Len(large_files) <= file_count
          /\ file_count < 0 => Len(large_files) > file_count

\* two directories were parsed and top_n = 1 kept one of them
C11_Witness ==
    /\ dirs_pc = "done"
    /\ top_n = 1
    /\ Len(ParsedDirs) = 2
    /\ Len(directories) = 1

SortedDesc(es) ==
    \A i, j \in DOMAIN es : i < j => es[i].size_bytes >= es[j].size_bytes

CountIn(es, e) == Cardinality({i \in DOMAIN es : es[i] = e})

\* result is sorted, is made of entries of all, and every entry of all it
\* leaves out is no larger than any entry it holds
LargestOf(result, all, n) ==
    /\ SortedDesc(result)
    /\ \A i \in DOMAIN result : CountIn(result, result[i]) <= CountIn(all, result[i])
    /\ \A i \in DOMAIN all :
          CountIn(result, all[i]) < CountIn(all, all[i]) =>
             \A j \in DOMAIN result : result[j].size_bytes >= all[i].size_bytes
    /\ n >= 0 => Len(result) = (IF n < Len(all) THEN n ELSE Len(all))

\* C12: what scan_directories and find_large_files return is sorted
\* non-increasing by size_bytes and is cut to top-N after the sort of all
\* parsed entries, so that it holds the N largest of them, on the normal
\* path and on the timeout and fallback paths.
C12_LargestFirst ==
    /\ dirs_pc = "done" => LargestOf(directories, ParsedDirs, top_n)
    /\ files_pc = "done" => LargestOf(large_files, ParsedFiles, file_count)

\* after a timeout du printed B (4 KiB) and then C (12 KiB): top_n = 1 kept C
C12_Witness ==
    /\ dirs_pc = "done"
    /\ dirs_timed_out
    /\ top_n = 1
    /\ ParsedDirs = <<DirEntry(PathB, 4 * 1024), DirEntry(PathC, 12 * 1024)>>
    /\ directories = <<DirEntry(PathC, 12 * 1024)>>

------------------------------------------------------------------------------
(* Properties of the failure handling of the probes *)

\* the byte counts get_disk_info derives from a statvfs result
StatCounts(st, info) ==
    /\ info.total_bytes = st.f_frsize * st.f_blocks
    /\ info.free_bytes = st.f_frsize * st.f_bfree
    /\ info.available_bytes = st.f_frsize * st.f_bavail
    /\ info.used_bytes = info.total_bytes - info.free_bytes

\* C13 as stated: get_disk_info never fails: whatever the outcome of statvfs
\* and of diskutil it returns a DiskInfo, which carries the byte counts
\* derived from statvfs, and whose volume_name, fs_type and apfs_container
\* are what diskutil printed or else all the empty string.
C13_AsStated ==
    /\ disk_pc # "raised"
    /\ disk_pc = "done" =>
          /\ \E st \in StatvfsResults : StatCounts(st, disk_info)
          /\ \/ \E plist \in Plists :
                   /\ disk_info.volume_name = plist.VolumeName
                   /\ disk_info.fs_type = plist.FilesystemType
                   /\ disk_info.apfs_container = plist.APFSContainerReference
             \/ /\ disk_info.volume_name = ""
                /\ disk_info.fs_type = ""
                /\ disk_info.apfs_container = ""

\* C14 as stated: scan_directories never raises: when du is missing, cannot
\* be started, prints undecodable output or the handling of the timeout
\* fails, it returns the empty list; and a line without a tab or with a
\* non-numeric size is skipped while the other lines give their entries.
C14_AsStated ==
    /\ dirs_pc # "raised"
    /\ dirs_pc = "done" =>
          directories = Slice(SortBySize(ParsedDirs), top_n)

\* C15 as stated: every FileEntry find_large_files returns has size_bytes of
\* at least min_size_mb * 1024 * 1024, on the mdfind tier and on the find
\* tier, also when the size of a file changed between its discovery and
\* the re-stat.
C15_AsStated ==
    files_pc = "done" =>
       \A i \in DOMAIN large_files : large_files[i].size_bytes >= MinBytes

------------------------------------------------------------------------------
(* Properties of compare_scans on lists with a repeated base name *)

\* the entries of a directory list that a later entry of the same base name
\* follows, and the entries that none follows
Shadowed(dirs) ==
    {i \in DOMAIN dirs :
        \E j \in DOMAIN dirs :
           j > i /\ BaseKey(dirs[j].path) = BaseKey(dirs[i].path)}
Unshadowed(dirs) == DOMAIN dirs \ Shadowed(dirs)

\* C19: in compare_scans, when two distinct paths of one snapshot's list
\* share a base name, the later entry of the list is the one matched: the
\* trend, new or removed entry of that base name carries the later entry's
\* path and size, and the earlier entry is in none of trends, new_dirs and
\* removed_dirs.
C19_LaterEntryWins ==
    Returned =>
       /\ \A i \in DOMAIN comparison.trends :
             LET t == comparison.trends[i]
             IN  /\ \E c \in Unshadowed(current.directories) :
                       /\ current.directories[c].path = t.path
                       /\ current.directories[c].size_bytes = t.current_bytes
                 /\ \E q \in Unshadowed(previous.directories) :
                       /\ BaseKey(previous.directories[q].path) = BaseKey(t.path)
                       /\ previous.directories[q].size_bytes = t.previous_bytes
                 /\ \A c \in Shadowed(current.directories) :
                       current.directories[c].path # t.path
       /\ \A i \in DOMAIN comparison.new_dirs :
             /\ \E c \in Unshadowed(current.directories) :
                   current.directories[c] = comparison.new_dirs[i]
             /\ \A c \in Shadowed(current.directories) :
                   current.directories[c] # comparison.new_dirs[i]
       /\ \A i \in DOMAIN comparison.removed_dirs :
             /\ \E q \in Unshadowed(previous.directories) :
                   previous.directories[q] = comparison.removed_dirs[i]
             /\ \A q \in Shadowed(previous.directories) :
                   previous.directories[q] # comparison.removed_dirs[i]

\* current lists "/s/A/" (200) and then "/r/A" (100), previous lists "/r/A":
\* the one trend is that of "/r/A" with current_bytes = 100
C19_Witness ==
    /\ Returned
    /\ current.directories = <<DirEntry(PathA2, 200), DirEntry(PathA, 100)>>
    /\ Len(previous.directories) = 1
    /\ Len(comparison.trends) = 1
    /\ comparison.trends[1].path = PathA
    /\ comparison.trends[1].current_bytes = 100
    /\ comparison.new_dirs = <<>>

------------------------------------------------------------------------------
(* Termination of scan_directories and of du *)

DirsEnded == dirs_pc \in {"done", "raised"}

\* C17 as stated: whenever the timeout of scan_directories expires, du is
\* eventually killed and scan_directories eventually returns, even if du
\* would never exit or close its output by itself; and du is never left
\* running once scan_directories has returned.
C17_AsStated ==
    /\ [](dirs_timed_out => <>(DirsEnded /\ du_state # "running"))
    /\ [](DirsEnded => du_state # "running")

------------------------------------------------------------------------------
(* Independence of the three probes *)

\* C18: in scan() the three probes are independent concurrent tasks: in
\* every interleaving, whatever the other two are doing (blocked on their
\* subordinate process, failed, finished or not begun), a submitted probe
\* that has not finished can take its next step, the only thing
\* scan_directories ever waits for being its own du; and submitting the
\* probes never waits for a probe.
C18_ProbesIndependent ==
    /\ disk_pc \in {"statvfs", "diskutil"} => ENABLED DiskNext
    /\ files_pc \in {"mdfind", "stat_mdfind", "stat_find", "check", "find",
                     "sort"} => ENABLED FilesNext
    /\ dirs_pc \in {"popen", "kill", "parse"} => ENABLED DirsCode
    /\ dirs_pc \in {"communicate", "read"} => ENABLED DirsNext
    /\ main_pc \in {"submit_disk", "submit_dirs", "submit_files"} =>
          ENABLED MainNext

\* scan_directories is blocked reading from a du that stays, and the other
\* two probes have run to completion
C18_Witness ==
    /\ dirs_pc = "read"
    /\ du_state = "running"
    /\ du_todo = <<>>
    /\ disk_pc = "done"
    /\ files_pc = "done"
    /\ main_pc = "result_dirs"

------------------------------------------------------------------------------
(* Properties of the store *)

\* a is not later than b
NotLater(a, b) == a.s < b.s \/ (a.s = b.s /\ a.us <= b.us)

\* the ScanResults saved for a root and not pruned since
StoredOf(root_path) ==
    {r \in saved : /\ r.root_path = root_path
                   /\ \E row \in scans : row.id = r.scan_id}

\* C16: after any sequence of save_scan and prune_old_scans calls,
\* get_latest_scan(root) returns the stored snapshot of greatest timestamp
\* among those saved with that root_path, get_previous_scan(root) returns the
\* stored snapshot of second-greatest timestamp, each returns None when no
\* (fewer than two) snapshots of that root are stored, and the snapshots of
\* other roots do not influence the answer.
C16_LatestAndPrevious ==
    LET S == StoredOf(db_call.root_path)
    IN  /\ db_call.op = "get_latest_scan" =>
              /\ db_call.found <=> S # {}
              /\ ~db_call.found => db_call.scan = NoSnapshot
              /\ db_call.found =>
                    /\ db_call.scan \in S
                    /\ \A r \in S :
                          NotLater(r.timestamp, db_call.scan.timestamp)
        /\ db_call.op = "get_previous_scan" =>
              /\ db_call.found <=> Cardinality(S) >= 2
              /\ ~db_call.found => db_call.scan = NoSnapshot
              /\ db_call.found =>
                    /\ db_call.scan \in S
                    /\ \E top \in S \ {db_call.scan} :
                          /\ NotLater(db_call.scan.timestamp, top.timestamp)
                          /\ \A r \in S \ {db_call.scan, top} :
                                NotLater(r.timestamp, db_call.scan.timestamp)

\* the root has the scans of 9 s and of 9.000005 s ("09" and "09.000005"),
\* the other root has a scan of 10 s, and get_previous_scan answers the scan
\* of 9 s
C16_Witness ==
    /\ db_call.op = "get_previous_scan"
    /\ db_call.found
    /\ db_call.root_path = Root
    /\ db_call.scan.timestamp = DateTime(9, 0)
    /\ \E r \in StoredOf(Root) : r.timestamp = DateTime(9, 5)
    /\ \E r \in StoredOf(OtherRoot) : r.timestamp = DateTime(10, 0)

RECURSIVE SizeTotal(_)
\* the sum of size_bytes over the entries of a list
SizeTotal(es) ==
    IF es = <<>> THEN 0 ELSE Head(es).size_bytes + SizeTotal(Tail(es))

\* C20: in the ScanResult that scan() returns, total_scanned_bytes is the sum
\* of size_bytes over the entries of its directories list, which is the list
\* after the cut to top_n; and the same holds of the ScanResult read back by
\* get_scan_by_id after save_scan.
C20_TotalIsSumOfDirectories ==
    /\ main_pc = "returned" =>
          /\ snapshot.directories = directories
          /\ snapshot.total_scanned_bytes = SizeTotal(snapshot.directories)
    /\ (db_call.op = "get_scan_by_id" /\ db_call.found) =>
          /\ db_call.scan = snapshot
          /\ db_call.scan.total_scanned_bytes
                = SizeTotal(db_call.scan.directories)

\* du printed B (4 KiB) and C (12 KiB), top_n = 1 kept C, large files were
\* found, and the scan read back has a total of 12 KiB
C20_Witness ==
    /\ db_call.op = "get_scan_by_id"
    /\ db_call.found
    /\ top_n = 1
    /\ Len(ParsedDirs) = 2
    /\ db_call.scan.directories = <<DirEntry(PathC, 12 * 1024)>>
    /\ db_call.scan.large_files # <<>>
    /\ db_call.scan.total_scanned_bytes = 12 * 1024

------------------------------------------------------------------------------
(* compare_scans partitions the base names *)

\* how many entries of the three lists carry base name k
TimesListed(k) ==
    Cardinality(Named(comparison.trends, k))
       + Cardinality(Named(comparison.new_dirs, k))
       + Cardinality(Named(comparison.removed_dirs, k))

\* C24: compare_scans partitions the base names of the two snapshots: every
\* base name of either snapshot is in exactly one of trends, new_dirs and
\* removed_dirs, and once, so that the three lengths add up to the number of
\* distinct base names; the path of every TrendEntry is the path of the
\* matched entry of the current snapshot; and the call leaves the two
\* snapshots as they were.
C24_Partition ==
    /\ [](Returned =>
            /\ \A k \in CurNames \cup PrevNames : TimesListed(k) = 1
            /\ Len(comparison.trends) + Len(comparison.new_dirs)
                  + Len(comparison.removed_dirs)
                  = Cardinality(CurNames \cup PrevNames)
            /\ \A i \in DOMAIN comparison.trends :
                  LET k == BaseKey(comparison.trends[i].path)
                  IN  /\ k \in CurNames
                      /\ comparison.trends[i].path
                            = Matched(current.directories, k).path)
    /\ [][current' = current /\ previous' = previous]_vars

\* current lists two paths of base name A, previous lists A, B and C: three
\* names, one trend and two removed directories
C24_Witness ==
    /\ Returned
    /\ Len(current.directories) = 2
    /\ Cardinality(CurNames) = 1
    /\ Cardinality(CurNames \cup PrevNames) = 3
    /\ Len(comparison.trends) = 1
    /\ Len(comparison.new_dirs) = 0
    /\ Len(comparison.removed_dirs) = 2

------------------------------------------------------------------------------
(* Paths that vanish before the re-stat *)

RECURSIVE StatAble(_)
\* the entries of a stat log whose getsize succeeded, in the order of the log
StatAble(log) ==
    IF log = <<>> THEN <<>>
    ELSE IF Head(log).size_bytes = StatFailed THEN StatAble(Tail(log))
    ELSE <<Head(log)>> \o StatAble(Tail(log))

\* C23: in both tiers of find_large_files a path that has vanished or become
\* inaccessible when it is re-stat'ed is silently dropped: it raises no
\* error and is not in the result, and every other path the tool printed
\* that can be stat'ed is still collected and considered for the result,
\* whichever of the paths vanish during the loop.
C23_VanishedDropped ==
    /\ files = StatAble(stat_log)
    /\ files_pc = "raised" => (files_exc = "FileNotFoundError" /\ stat_log = <<>>)
    /\ files_pc = "done" =>
          /\ \A i \in DOMAIN large_files :
                large_files[i].size_bytes # StatFailed
          /\ large_files = Slice(SortBySize(StatAble(stat_log)), file_count)

\* on the find tier the first path had vanished and the second is returned
C23_Witness ==
    /\ files_pc = "done"
    /\ find_calls = 1
    /\ stat_log = <<FileEntry(FileP, StatFailed), FileEntry(FileQ, MinBytes)>>
    /\ large_files = <<FileEntry(FileQ, MinBytes)>>

------------------------------------------------------------------------------
(* Properties of prune_old_scans *)

\* the step is a call of prune_old_scans(keep), keep being db_call'.n
PruneStep == db_call'.op = "prune_old_scans"

RowsOfRoot(table, root_path) == {r \in table : r.root_path = root_path}

RowTime(row) == FromIsoFormat(row.timestamp)

\* of the n scans of the root stored before the step, exactly `kept` are
\* stored after it, and none of them is older than a deleted one
KeepsMostRecent(root_path, kept) ==
    LET before == RowsOfRoot(scans, root_path)
        after  == RowsOfRoot(scans', root_path)
    IN  /\ after \subseteq before
        /\ Cardinality(after) = kept
        /\ \A a \in after : \A d \in before \ after :
              NotLater(RowTime(d), RowTime(a))

\* the entries of the deleted scans are deleted, those of the retained scans
\* are as before, and the number returned is the number of scans deleted
CascadesAndCounts ==
    /\ entries' = {e \in entries : \E r \in scans' : r.id = e.scan_id}
    /\ \A e \in entries : \E r \in scans : r.id = e.scan_id
    /\ db_call'.returned = Cardinality(scans) - Cardinality(scans')

Smaller(a, b) == IF a < b THEN a ELSE b

\* C22 as stated: after prune_old_scans(keep), for every root_path the stored
\* scans are exactly the min(keep, n) scans of greatest timestamp among the
\* n stored before; the entries of every deleted scan are deleted with it
\* and those of retained scans are untouched; the number returned is the
\* number of scans deleted.
C22_AsStated ==
    [][PruneStep =>
          /\ \A root_path \in Roots :
                KeepsMostRecent(root_path,
                   Smaller(db_call'.n,
                           Cardinality(RowsOfRoot(scans, root_path))))
          /\ CascadesAndCounts]_vars

\* how many of n scans scans[keep:] leaves: keep of them, all if there are
\* fewer, and all but the -keep oldest when keep is negative
Kept(keep, n) ==
    IF keep >= 0 THEN Smaller(keep, n)
    ELSE (IF n + keep > 0 THEN n + keep ELSE 0)

\* C22, amended: for keep >= 0 the scans stored for a root after
\* prune_old_scans(keep) are exactly the min(keep, n) most recent of the n
\* stored before; for a negative keep the -keep oldest scans of every root
\* are deleted and max(0, n + keep) are retained; in both cases the entries
\* of the deleted scans go with them, the entries of retained scans are
\* untouched and the number returned is the number of scans deleted.
C22_PruneKeepsMostRecent ==
    [][PruneStep =>
          /\ \A root_path \in Roots :
                KeepsMostRecent(root_path,
                   Kept(db_call'.n,
                        Cardinality(RowsOfRoot(scans, root_path))))
          /\ CascadesAndCounts]_vars

\* prune_old_scans(1) found three scans of one root and none of the other:
\* it deleted two, and the scan left has its three entries
C22_Witness ==
    /\ db_call.op = "prune_old_scans"
    /\ db_call.n = 1
    /\ db_call.returned = 2
    /\ Cardinality(scans) = 1
    /\ Cardinality(entries) = 3
    /\ seq_scans = 3
    /\ \A r \in scans : \A q \in saved :
          q.root_path = r.root_path /\ NotLater(q.timestamp, RowTime(r))

------------------------------------------------------------------------------
(* C21: the timestamp of the snapshot and the start of the probes *)

\* the three probes of scan()
Probes == {"disk", "dirs", "files"}

\* C21: the timestamp of the Snapshot that scan() returns is the point at
\* which the scan began: it is not later than the moment at which any of the
\* three probes started to run.
C21_AsStated ==
    main_pc = "returned" =>
        \A p \in Probes : ~Later(started_at[p], snapshot.timestamp)

==============================================================================
